---- MODULE Spec2Model ----
(***************************************************************************)
(* Task coordination core of the Arachne backend: the in-memory task       *)
(* registry (backend/tasks.py), the admission check of the HTTP routes     *)
(* (backend/api_routes.py) and the progress hook of the one shared         *)
(* YouTubeDownloader instance (backend/downloader.py, backend/app.py).     *)
(*                                                                         *)
(* Threads: one request handler per slot of Reqs, one handler of the      *)
(* batch route, one worker thread per created task.                        *)
(* Every action is one atomic step of one thread: a store                  *)
(* operation under _tasks_lock, or one read / write of the shared          *)
(* attribute downloader.progress_callback.  yt-dlp is the environment: it  *)
(* calls _progress_hook with any sequence of events and then returns or    *)
(* raises (build_download_options sets ignoreerrors, so an "error" event   *)
(* may be followed by further events and by a normal return).              *)
(*                                                                         *)
(* StoreSpec looks at tasks.py alone, one step finer: entering a           *)
(* "with _tasks_lock:" block and leaving it are separate steps of threads  *)
(* that call the four store operations with any argument.                  *)
(***************************************************************************)
EXTENDS Integers, FiniteSets, Sequences, TLC

\* ---------------------------------------------------------------- bounds
MaxTasks == 2      \* task ids uuid4 can hand out in one run
MaxReqs  == 2      \* request-handler threads serving /api/download
MaxBatch == 3      \* longest "urls" list of a POST /api/batch-download
MaxThreads == 2    \* threads calling the store operations in StoreSpec

\* configured ceiling (config.max_concurrent_downloads), chosen small
max_concurrent_downloads == 1

TaskIds == 1..MaxTasks
Threads == 1..MaxThreads
Reqs    == 1..MaxReqs
None    == 0

Urls    == {"https://a"}
NoUrl   == ""
\* entries of a batch "urls" list: a bare link, text around a link, no link
RawUrls == {"https://a", "watch https://a", "no link"}
NotChecked == -1
\* request "options": a dict for a video, a dict with audioOnly, or JSON
\* that is no dict at all (user_options.get then raises in download())
Options == {"video", "audio", "bad"}

\* the events yt-dlp hands to _progress_hook (d), by status and byte counts
HookEvents ==
    { [status |-> "downloading", downloaded_bytes |-> 50,  total_bytes |-> 200],
      [status |-> "downloading", downloaded_bytes |-> 150, total_bytes |-> 200],
      [status |-> "downloading", downloaded_bytes |-> 300, total_bytes |-> 200],
      [status |-> "downloading", downloaded_bytes |-> 50,  total_bytes |-> 0],
      [status |-> "finished",    downloaded_bytes |-> 0,   total_bytes |-> 0],
      [status |-> "error",       downloaded_bytes |-> 0,   total_bytes |-> 0] }

\* completed tasks keep their slot
ActiveStatuses_withCompleted == {"downloading", "queued", "processing", "completed"}

ActiveStatuses   == {"downloading", "queued", "processing"}
TerminalStatuses == {"completed", "error"}

FfmpegMissing == "FFmpeg not found"
EngineError   == "str(e)"
HookError     == "Unknown error during download"
WorkerFault   == "A critical error occurred in the worker thread."

VARIABLES
    tasks,              \* _tasks: task id -> dict (domain = ids inserted)
    progress_callback,  \* downloader.progress_callback: None or the id its lambda captured
    wpc,                \* per task: position of its worker thread
    result,             \* per task: what downloader.download returned
    hpc,                \* per task: position inside _progress_hook
    hcb,                \* per task: the callback object the hook loaded for its call
    rpc,                \* per request thread: position in start_download
    rid,                \* per request thread: task_id inside create_download_task
    resp,               \* per request thread: HTTP status of the last response
    returned,           \* ids create_download_task has returned so far
    bpc,                \* batch handler: position in start_batch_download
    n_urls,             \* batch handler: len(urls_to_process)
    url_index,          \* batch handler: position of raw_url in the list (from 1)
    created_task_details, \* batch handler: the (task_id, url) pairs created
    skipped_tasks,      \* batch handler: the count put into the message
    failed_at,          \* batch handler: position whose check failed, 0 if none
    seen_count,         \* batch handler: active count its last check read
    bresp,              \* batch handler: HTTP status of the last response
    _tasks_lock,        \* the thread inside a "with _tasks_lock:" block, or None
    lpc,                \* per thread of StoreSpec: where it is (idle, in an operation, ...)
    last_call,          \* the store operation completed last: name, argument, result
    snapshot            \* the dict get_task_status returned last, as its caller holds it

vars == <<tasks, progress_callback, wpc, result, hpc, hcb,
          rpc, rid, resp, returned,
          bpc, n_urls, url_index, created_task_details, skipped_tasks,
          failed_at, seen_count, bresp,
          _tasks_lock, lpc, last_call, snapshot>>

workerVars == <<wpc, result, hpc, hcb>>
hookVars   == <<hpc, hcb>>
reqVars    == <<rpc, rid, resp, returned>>
batchVars  == <<bpc, n_urls, url_index, created_task_details, skipped_tasks,
                failed_at, seen_count, bresp>>
storeVars  == <<_tasks_lock, lpc, last_call, snapshot>>

\* ------------------------------------------------------------ the store
EmptyDict == [f \in {} |-> 0]

\* dict.update: keys of p overwrite, the other keys of r stay
DictUpdate(r, p) ==
    [f \in (DOMAIN r) \cup (DOMAIN p) |-> IF f \in DOMAIN p THEN p[f] ELSE r[f]]

\* counts only the tasks already downloading
get_active_downloads_count_downloadingOnly ==
    Cardinality({t \in DOMAIN tasks : tasks[t]["status"] = "downloading"})

get_active_downloads_count ==
    Cardinality({t \in DOMAIN tasks : tasks[t]["status"] \in ActiveStatuses})

\* finished tasks are no longer reported
get_task_status_hidesTerminal(task_id) ==
    IF task_id \in DOMAIN tasks /\ tasks[task_id]["status"] \notin TerminalStatuses
    THEN tasks[task_id] ELSE EmptyDict

get_task_status(task_id) ==
    IF task_id \in DOMAIN tasks THEN tasks[task_id] ELSE EmptyDict

\* HTTP status of GET /api/progress/<task_id>
get_download_progress(task_id) ==
    IF get_task_status(task_id) = EmptyDict THEN 404 ELSE 200

\* an absent id gets a record made of the payload
_update_task_progress_upsert(task_id, progress_data) ==
    [t \in (DOMAIN tasks) \cup {task_id} |->
        IF t = task_id
        THEN (IF t \in DOMAIN tasks THEN DictUpdate(tasks[t], progress_data)
              ELSE progress_data)
        ELSE tasks[t]]

\* the store after _update_task_progress(task_id, progress_data)
_update_task_progress(task_id, progress_data) ==
    IF task_id \in DOMAIN tasks
    THEN [tasks EXCEPT ![task_id] = DictUpdate(tasks[task_id], progress_data)]
    ELSE tasks

\* an identifier source that repeats itself
uuid4_repeating == CHOOSE i \in TaskIds : \A j \in TaskIds : i <= j

\* uuid.uuid4(): a fresh identifier (the least one not handed out yet)
uuid4 == CHOOSE i \in TaskIds \ DOMAIN tasks : \A j \in TaskIds \ DOMAIN tasks : i <= j

\* the record starts out as downloading
InitialRecord_downloading(url) == [status |-> "downloading", url |-> url, percent |-> 0]

InitialRecord(url) == [status |-> "queued", url |-> url, percent |-> 0]

\* the fraction is not scaled to a percentage
HookPayload_fraction(d) ==
    IF d.status = "downloading"
    THEN [status     |-> "downloading",
          percent    |-> IF d.total_bytes > 0
                         THEN d.downloaded_bytes \div d.total_bytes
                         ELSE 0]
    ELSE IF d.status = "finished"
    THEN [status |-> "processing"]
    ELSE [status |-> "error", error |-> HookError]

\* ------------------------------------------------------ the progress hook
\* the dict _progress_hook passes to the callback for event d (of its keys
\* the model keeps status, percent and error; total, downloaded, speed, eta
\* and message are telemetry no property reads)
HookPayload(d) ==
    IF d.status = "downloading"
    THEN [status     |-> "downloading",
          percent    |-> IF d.total_bytes > 0
                         THEN (d.downloaded_bytes * 100) \div d.total_bytes
                         ELSE 0]
    ELSE IF d.status = "finished"
    THEN [status |-> "processing"]
    ELSE [status |-> "error", error |-> HookError]

\* the final status also carries a url key
FinalStatus_withUrl(res) ==
    IF res.success
    THEN [status |-> "completed", percent |-> 100, url |-> NoUrl]
    ELSE [status |-> "error", error |-> res.error, url |-> NoUrl]

\* completed is written without the percent
FinalStatus_noPercent(res) ==
    IF res.success
    THEN [status |-> "completed"]
    ELSE [status |-> "error", error |-> res.error]

\* final_status of _download_worker for a download() result
FinalStatus(res) ==
    IF res.success
    THEN [status |-> "completed", percent |-> 100]
    ELSE [status |-> "error", error |-> res.error]

NoResult == [success |-> FALSE, error |-> "none"]
NoCall     == [op |-> "none", task_id |-> None, ret |-> 0]
NoSnapshot == [task_id |-> None, alias |-> None, val |-> EmptyDict]

\* ------------------------------------------------------------------ Init
Init ==
    /\ tasks = EmptyDict
    /\ progress_callback = None
    /\ wpc = [t \in TaskIds |-> "none"]
    /\ result = [t \in TaskIds |-> NoResult]
    /\ hpc = [t \in TaskIds |-> "idle"]
    /\ hcb = [t \in TaskIds |-> None]
    /\ rpc = [r \in Reqs |-> "idle"]
    /\ rid = [r \in Reqs |-> None]
    /\ resp = [r \in Reqs |-> 0]
    /\ returned = {}
    /\ bpc = "idle"
    /\ n_urls = 0
    /\ url_index = 0
    /\ created_task_details = <<>>
    /\ skipped_tasks = 0
    /\ failed_at = 0
    /\ seen_count = NotChecked
    /\ bresp = 0
    /\ _tasks_lock = None
    /\ lpc = [th \in Threads |-> "idle"]
    /\ last_call = NoCall
    /\ snapshot = NoSnapshot

\* ------------------------------------------------- start_download (route)
\* requests are served only while an identifier is left for a new task
IdsLeft ==
    Cardinality(DOMAIN tasks) + Cardinality({q \in Reqs : rpc[q] = "admitted"}) < MaxTasks

\* the comparison lets one request through at the ceiling
AdmissionCheck_offByOne(r) ==
    /\ rpc[r] = "idle"
    /\ IdsLeft
    /\ IF get_active_downloads_count > max_concurrent_downloads
       THEN /\ resp' = [resp EXCEPT ![r] = 429]
            /\ UNCHANGED rpc
       ELSE /\ rpc' = [rpc EXCEPT ![r] = "admitted"]
            /\ resp' = [resp EXCEPT ![r] = 0]
    /\ UNCHANGED <<tasks, progress_callback, workerVars, rid, returned, batchVars, storeVars>>

\* admission check of POST /api/download: 429 at the ceiling, else go on
AdmissionCheck(r) ==
    /\ rpc[r] = "idle"
    /\ IdsLeft
    /\ IF get_active_downloads_count >= max_concurrent_downloads
       THEN /\ resp' = [resp EXCEPT ![r] = 429]
            /\ UNCHANGED rpc
       ELSE /\ rpc' = [rpc EXCEPT ![r] = "admitted"]
            /\ resp' = [resp EXCEPT ![r] = 0]
    /\ UNCHANGED <<tasks, progress_callback, workerVars, rid, returned, batchVars, storeVars>>

\* the thread is started but the record is left for the worker to insert
CreateTask_noInsert(r) ==
    /\ rpc[r] = "admitted"
    /\ wpc' = [wpc EXCEPT ![uuid4] = "start"]
    /\ rid' = [rid EXCEPT ![r] = uuid4]
    /\ rpc' = [rpc EXCEPT ![r] = "created"]
    /\ UNCHANGED <<tasks, progress_callback, result, hookVars, resp, returned, batchVars, storeVars>>

\* the count is read again under the lock of the insert: at the ceiling the
\* request is turned away after all
CreateTask_recheck(r) ==
    /\ rpc[r] = "admitted"
    /\ IF get_active_downloads_count >= max_concurrent_downloads
       THEN /\ rpc' = [rpc EXCEPT ![r] = "idle"]
            /\ resp' = [resp EXCEPT ![r] = 429]
            /\ UNCHANGED <<tasks, wpc, rid>>
       ELSE /\ \E url \in Urls :
                LET task_id == uuid4 IN
                /\ tasks' = [t \in (DOMAIN tasks) \cup {task_id} |->
                                IF t = task_id THEN InitialRecord(url) ELSE tasks[t]]
                /\ wpc' = [wpc EXCEPT ![task_id] = "start"]
                /\ rid' = [rid EXCEPT ![r] = task_id]
            /\ rpc' = [rpc EXCEPT ![r] = "created"]
            /\ UNCHANGED resp
    /\ UNCHANGED <<progress_callback, result, hookVars, returned, batchVars, storeVars>>

\* create_download_task up to thread.start(): fresh id, insert, spawn
CreateTask(r) ==
    /\ rpc[r] = "admitted"
    /\ \E url \in Urls :
        LET task_id == uuid4 IN
        /\ tasks' = [t \in (DOMAIN tasks) \cup {task_id} |->
                        IF t = task_id THEN InitialRecord(url) ELSE tasks[t]]
        /\ wpc' = [wpc EXCEPT ![task_id] = "start"]
        /\ rid' = [rid EXCEPT ![r] = task_id]
    /\ rpc' = [rpc EXCEPT ![r] = "created"]
    /\ UNCHANGED <<progress_callback, result, hookVars, resp, returned, batchVars, storeVars>>

\* create_download_task returns task_id; the route answers 201
CreateReturn(r) ==
    /\ rpc[r] = "created"
    /\ returned' = returned \cup {rid[r]}
    /\ resp' = [resp EXCEPT ![r] = 201]
    /\ rpc' = [rpc EXCEPT ![r] = "idle"]
    /\ rid' = [rid EXCEPT ![r] = None]
    /\ UNCHANGED <<tasks, progress_callback, workerVars, batchVars, storeVars>>

\* ------------------------------------------- start_batch_download (route)
\* re.search for the first http(s) link in the text; "" when there is none
_extract_url_from_text(text) ==
    IF text \in {"https://a", "watch https://a"} THEN "https://a" ELSE NoUrl

\* a batch creates a task only while an identifier is left for it
BatchIdsLeft == Cardinality(DOMAIN tasks) < MaxTasks

\* POST /api/batch-download arrives: 400 for an empty list, else the loop starts
BatchStart ==
    /\ bpc = "idle"
    /\ \E n \in 0..MaxBatch :
        /\ n_urls' = n
        /\ IF n = 0
           THEN /\ bresp' = 400
                /\ url_index' = 0
                /\ UNCHANGED bpc
           ELSE /\ bresp' = 0
                /\ url_index' = 1
                /\ bpc' = "check"
    /\ created_task_details' = <<>>
    /\ skipped_tasks' = 0
    /\ failed_at' = 0
    /\ seen_count' = NotChecked
    /\ UNCHANGED <<tasks, progress_callback, workerVars, reqVars, storeVars>>

\* a failed check skips this URL only and the loop goes on
BatchCheck_continue ==
    /\ bpc = "check"
    /\ IF get_active_downloads_count >= max_concurrent_downloads
       THEN /\ skipped_tasks' = n_urls - Len(created_task_details)
            /\ failed_at' = url_index
            /\ url_index' = url_index + 1
            /\ bpc' = IF url_index < n_urls THEN "check" ELSE "respond"
            /\ UNCHANGED seen_count
       ELSE /\ seen_count' = get_active_downloads_count
            /\ bpc' = "create"
            /\ UNCHANGED <<skipped_tasks, failed_at, url_index>>
    /\ UNCHANGED <<tasks, progress_callback, workerVars, reqVars,
                   n_urls, created_task_details, bresp, storeVars>>

\* top of the loop body: the admission check of this URL; at the ceiling
\* skipped_tasks is computed and the loop is left (break)
BatchCheck ==
    /\ bpc = "check"
    /\ IF get_active_downloads_count >= max_concurrent_downloads
       THEN /\ skipped_tasks' = n_urls - Len(created_task_details)
            /\ failed_at' = url_index
            /\ bpc' = "respond"
            /\ UNCHANGED seen_count
       ELSE /\ seen_count' = get_active_downloads_count
            /\ bpc' = "create"
            /\ UNCHANGED <<skipped_tasks, failed_at>>
    /\ UNCHANGED <<tasks, progress_callback, workerVars, reqVars,
                   n_urls, url_index, created_task_details, bresp, storeVars>>

\* rest of the loop body: extract the link; with a link create_download_task
\* (fresh id, insert, spawn, return) and append; without one go on silently
BatchCreate ==
    /\ bpc = "create"
    /\ \E raw_url \in RawUrls :
        LET url == _extract_url_from_text(raw_url) IN
        IF url # NoUrl
        THEN /\ BatchIdsLeft
             /\ LET task_id == uuid4 IN
                 /\ tasks' = [t \in (DOMAIN tasks) \cup {task_id} |->
                                 IF t = task_id THEN InitialRecord(url) ELSE tasks[t]]
                 /\ wpc' = [wpc EXCEPT ![task_id] = "start"]
                 /\ returned' = returned \cup {task_id}
                 /\ created_task_details' =
                        Append(created_task_details, [task_id |-> task_id, url |-> url])
        ELSE UNCHANGED <<tasks, wpc, returned, created_task_details>>
    /\ seen_count' = NotChecked
    /\ url_index' = url_index + 1
    /\ bpc' = IF url_index < n_urls THEN "check" ELSE "respond"
    /\ UNCHANGED <<progress_callback, result, hookVars, rpc, rid, resp,
                   n_urls, skipped_tasks, failed_at, bresp, storeVars>>

\* after the loop: the message with both counts, the created list, 201
BatchRespond ==
    /\ bpc = "respond"
    /\ bresp' = 201
    /\ bpc' = "idle"
    /\ UNCHANGED <<tasks, progress_callback, workerVars, reqVars,
                   n_urls, url_index, created_task_details, skipped_tasks,
                   failed_at, seen_count, storeVars>>

\* ------------------------------------------------------ _download_worker
\* downloader.set_progress_callback(lambda progress: ...task_id...)
SetCallback(t) ==
    /\ wpc[t] = "start"
    /\ progress_callback' = t
    /\ wpc' = [wpc EXCEPT ![t] = "call"]
    /\ UNCHANGED <<tasks, result, hookVars, reqVars, batchVars, storeVars>>

\* downloader.download before yt-dlp runs: options read, FFmpeg pre-check
DownloadBegin(t) ==
    /\ wpc[t] = "call"
    /\ \E user_options \in Options, ffmpeg_path \in BOOLEAN :
        IF user_options = "bad"
        THEN /\ wpc' = [wpc EXCEPT ![t] = "except"]
             /\ UNCHANGED result
        ELSE IF user_options = "video" /\ ~ffmpeg_path
        THEN /\ result' = [result EXCEPT ![t] = [success |-> FALSE, error |-> FfmpegMissing]]
             /\ wpc' = [wpc EXCEPT ![t] = "final"]
        ELSE /\ wpc' = [wpc EXCEPT ![t] = "engine"]
             /\ UNCHANGED result
    /\ UNCHANGED <<tasks, progress_callback, hookVars, reqVars, batchVars, storeVars>>

\* yt-dlp calls _progress_hook(d); the hook tests self.progress_callback
HookEnter(t) ==
    /\ wpc[t] = "engine"
    /\ hpc[t] = "idle"
    /\ IF progress_callback = None
       THEN UNCHANGED hpc
       ELSE hpc' = [hpc EXCEPT ![t] = "tested"]
    /\ UNCHANGED <<tasks, progress_callback, wpc, result, hcb, reqVars, batchVars, storeVars>>

\* the hook evaluates self.progress_callback again, for the call
HookLoad(t) ==
    /\ hpc[t] = "tested"
    /\ hcb' = [hcb EXCEPT ![t] = progress_callback]
    /\ hpc' = [hpc EXCEPT ![t] = "loaded"]
    /\ UNCHANGED <<tasks, progress_callback, wpc, result, reqVars, batchVars, storeVars>>

\* the hook calls what it loaded with the payload of its event d: the lambda
\* runs _update_task_progress for the id it captured.  Calling None raises:
\* the event is lost and the exception leaves the hook, which has no handler,
\* into yt-dlp; yt-dlp either goes on with the transfer, or gives it up and
\* ydl.download returns (ignoreerrors) or raises (caught by download())
HookCall(t) ==
    /\ hpc[t] = "loaded"
    /\ IF hcb[t] = None
       THEN /\ UNCHANGED tasks
            /\ \/ UNCHANGED <<wpc, result>>
               \/ /\ \E ok \in BOOLEAN :
                        result' = [result EXCEPT ![t] =
                                      IF ok THEN [success |-> TRUE, error |-> "none"]
                                      ELSE [success |-> FALSE, error |-> EngineError]]
                  /\ wpc' = [wpc EXCEPT ![t] = "final"]
       ELSE /\ \E d \in HookEvents :
                tasks' = _update_task_progress(hcb[t], HookPayload(d))
            /\ UNCHANGED <<wpc, result>>
    /\ hpc' = [hpc EXCEPT ![t] = "idle"]
    /\ hcb' = [hcb EXCEPT ![t] = None]
    /\ UNCHANGED <<progress_callback, reqVars, batchVars, storeVars>>

\* ydl.download returns (success) or raises (caught: success False, str(e))
DownloadReturn(t) ==
    /\ wpc[t] = "engine"
    /\ hpc[t] = "idle"
    /\ \E ok \in BOOLEAN :
        result' = [result EXCEPT ![t] =
                      IF ok THEN [success |-> TRUE, error |-> "none"]
                      ELSE [success |-> FALSE, error |-> EngineError]]
    /\ wpc' = [wpc EXCEPT ![t] = "final"]
    /\ UNCHANGED <<tasks, progress_callback, hookVars, reqVars, batchVars, storeVars>>

\* a failed download is run again
FinalUpdate_retry(t) ==
    /\ wpc[t] = "final"
    /\ tasks' = _update_task_progress(t, FinalStatus(result[t]))
    /\ wpc' = [wpc EXCEPT ![t] = IF result[t].success THEN "finally" ELSE "call"]
    /\ UNCHANGED <<progress_callback, result, hookVars, reqVars, batchVars, storeVars>>

\* _update_task_progress(task_id, final_status)
FinalUpdate(t) ==
    /\ wpc[t] = "final"
    /\ tasks' = _update_task_progress(t, FinalStatus(result[t]))
    /\ wpc' = [wpc EXCEPT ![t] = "finally"]
    /\ UNCHANGED <<progress_callback, result, hookVars, reqVars, batchVars, storeVars>>

\* the handler only logs the exception
ExceptUpdate_logOnly(t) ==
    /\ wpc[t] = "except"
    /\ wpc' = [wpc EXCEPT ![t] = "finally"]
    /\ UNCHANGED <<tasks, progress_callback, result, hookVars, reqVars, batchVars, storeVars>>

\* the handler stores the text of the exception
ExceptUpdate_exceptionText(t) ==
    /\ wpc[t] = "except"
    /\ tasks' = _update_task_progress(t, [status |-> "error", error |-> EngineError])
    /\ wpc' = [wpc EXCEPT ![t] = "finally"]
    /\ UNCHANGED <<progress_callback, result, hookVars, reqVars, batchVars, storeVars>>

\* except Exception: the generic error update
ExceptUpdate(t) ==
    /\ wpc[t] = "except"
    /\ tasks' = _update_task_progress(t, [status |-> "error", error |-> WorkerFault])
    /\ wpc' = [wpc EXCEPT ![t] = "finally"]
    /\ UNCHANGED <<progress_callback, result, hookVars, reqVars, batchVars, storeVars>>

\* the ending worker also drops its record
ClearCallback_evict(t) ==
    /\ wpc[t] = "finally"
    /\ progress_callback' = None
    /\ wpc' = [wpc EXCEPT ![t] = "done"]
    /\ tasks' = [x \in (DOMAIN tasks) \ {t} |-> tasks[x]]
    /\ UNCHANGED <<result, hookVars, reqVars, batchVars, storeVars>>

\* finally: downloader.clear_progress_callback(); the thread ends
ClearCallback(t) ==
    /\ wpc[t] = "finally"
    /\ progress_callback' = None
    /\ wpc' = [wpc EXCEPT ![t] = "done"]
    /\ UNCHANGED <<tasks, result, hookVars, reqVars, batchVars, storeVars>>

Next ==
    \/ \E r \in Reqs : AdmissionCheck(r)
    \/ \E r \in Reqs : CreateTask(r)
    \/ \E r \in Reqs : CreateReturn(r)
    \/ \E t \in TaskIds : SetCallback(t)
    \/ \E t \in TaskIds : DownloadBegin(t)
    \/ \E t \in TaskIds : HookEnter(t)
    \/ \E t \in TaskIds : HookLoad(t)
    \/ \E t \in TaskIds : HookCall(t)
    \/ \E t \in TaskIds : DownloadReturn(t)
    \/ \E t \in TaskIds : FinalUpdate(t)
    \/ \E t \in TaskIds : ExceptUpdate(t)
    \/ \E t \in TaskIds : ClearCallback(t)

Spec == Init /\ [][Next]_vars

\* ------------------------------------------- requests served one at a time
OthersIdle(r) == \A q \in Reqs \ {r} : rpc[q] = "idle"

WorkerNext ==
    \/ \E t \in TaskIds : SetCallback(t)
    \/ \E t \in TaskIds : DownloadBegin(t)
    \/ \E t \in TaskIds : HookEnter(t)
    \/ \E t \in TaskIds : HookLoad(t)
    \/ \E t \in TaskIds : HookCall(t)
    \/ \E t \in TaskIds : DownloadReturn(t)
    \/ \E t \in TaskIds : FinalUpdate(t)
    \/ \E t \in TaskIds : ExceptUpdate(t)
    \/ \E t \in TaskIds : ClearCallback(t)

SerialNext ==
    \/ \E r \in Reqs : OthersIdle(r) /\ AdmissionCheck(r)
    \/ \E r \in Reqs : OthersIdle(r) /\ CreateTask(r)
    \/ \E r \in Reqs : OthersIdle(r) /\ CreateReturn(r)
    \/ WorkerNext

SerialSpec == Init /\ [][SerialNext]_vars

\* ------------------------------------- workers that never run side by side
NoWorkerRunning == \A t \in TaskIds : wpc[t] \in {"none", "done"}

SoloNext ==
    \/ \E r \in Reqs : OthersIdle(r) /\ NoWorkerRunning /\ AdmissionCheck(r)
    \/ \E r \in Reqs : OthersIdle(r) /\ NoWorkerRunning /\ CreateTask(r)
    \/ \E r \in Reqs : OthersIdle(r) /\ CreateReturn(r)
    \/ WorkerNext

SoloSpec == Init /\ [][SoloNext]_vars

\* --------------------------------- one batch handler beside the workers
BatchNext ==
    \/ BatchStart
    \/ BatchCheck
    \/ BatchCreate
    \/ BatchRespond
    \/ WorkerNext

BatchSpec == Init /\ [][BatchNext]_vars

\* ------------------------------------ the store operations under the lock
\* (tasks.py as a module: any thread may call any of the four operations
\* with any argument; a thread is a request handler or a worker)
StoreOps == {"count", "get", "insert", "update"}

\* what the callers of _update_task_progress pass, one of each kind: the
\* hook's payloads for a tick without a total and for a finished event, the
\* final status of a successful download, the fault handler's update
StoreEvents   == {d \in HookEvents : d.total_bytes = 0 /\ d.status # "error"}
StorePayloads ==
    {HookPayload(d) : d \in StoreEvents}
        \cup {FinalStatus([success |-> TRUE, error |-> "none"])}
        \cup {[status |-> "error", error |-> WorkerFault]}

\* the urls create_download_task is called with
StoreUrls == Urls \cup {"https://b"}

\* every payload the program passes to _update_task_progress: the hook's,
\* the worker's final status for each result, the fault handler's
ProgramPayloads ==
    {HookPayload(d) : d \in HookEvents}
        \cup {FinalStatus(res) : res \in {[success |-> TRUE, error |-> "none"],
                                          [success |-> FALSE, error |-> FfmpegMissing],
                                          [success |-> FALSE, error |-> EngineError]}}
        \cup {[status |-> "error", error |-> WorkerFault]}

\* what the holder of a returned dict writes into it
CallerEdit == [status |-> "seen"]

\* the contents of the dict the caller holds: its own when it is a copy,
\* the record's when it is the record itself
SnapValue(snap, store) ==
    IF snap.alias # None THEN store[snap.alias] ELSE snap.val

\* the block is entered without waiting for the lock
StoreEnter_noLock(th) ==
    /\ lpc[th] = "idle"
    /\ \E op \in StoreOps :
        /\ op = "insert" => BatchIdsLeft
        /\ lpc' = [lpc EXCEPT ![th] = op]
    /\ _tasks_lock' = th
    /\ UNCHANGED <<tasks, progress_callback, workerVars, reqVars, batchVars,
                   last_call, snapshot>>

\* "with _tasks_lock:" of one of the four operations: acquire, when free
StoreEnter(th) ==
    /\ lpc[th] = "idle"
    /\ _tasks_lock = None
    /\ \E op \in StoreOps :
        /\ op = "insert" => BatchIdsLeft
        /\ lpc' = [lpc EXCEPT ![th] = op]
    /\ _tasks_lock' = th
    /\ UNCHANGED <<tasks, progress_callback, workerVars, reqVars, batchVars,
                   last_call, snapshot>>

\* every record is counted
StoreCount_allRecords(th) ==
    /\ lpc[th] = "count"
    /\ last_call' = [op |-> "count", task_id |-> None,
                     ret |-> Cardinality(DOMAIN tasks)]
    /\ _tasks_lock' = None
    /\ lpc' = [lpc EXCEPT ![th] = "idle"]
    /\ UNCHANGED <<tasks, progress_callback, workerVars, reqVars, batchVars,
                   snapshot>>

\* get_active_downloads_count: the body, the release, the return
StoreCount(th) ==
    /\ lpc[th] = "count"
    /\ last_call' = [op |-> "count", task_id |-> None,
                     ret |-> get_active_downloads_count]
    /\ _tasks_lock' = None
    /\ lpc' = [lpc EXCEPT ![th] = "idle"]
    /\ UNCHANGED <<tasks, progress_callback, workerVars, reqVars, batchVars,
                   snapshot>>

\* the record itself is handed out
StoreGet_noCopy(th) ==
    /\ lpc[th] = "get"
    /\ \E task_id \in TaskIds :
        /\ snapshot' = [task_id |-> task_id,
                        alias   |-> IF task_id \in DOMAIN tasks THEN task_id ELSE None,
                        val     |-> EmptyDict]
        /\ last_call' = [op |-> "get", task_id |-> task_id, ret |-> 0]
    /\ _tasks_lock' = None
    /\ lpc' = [lpc EXCEPT ![th] = "idle"]
    /\ UNCHANGED <<tasks, progress_callback, workerVars, reqVars, batchVars>>

\* get_task_status: _tasks.get(task_id, {}).copy(), the release, the return
StoreGet(th) ==
    /\ lpc[th] = "get"
    /\ \E task_id \in TaskIds :
        /\ snapshot' = [task_id |-> task_id,
                        alias   |-> None,
                        val     |-> get_task_status(task_id)]
        /\ last_call' = [op |-> "get", task_id |-> task_id, ret |-> 0]
    /\ _tasks_lock' = None
    /\ lpc' = [lpc EXCEPT ![th] = "idle"]
    /\ UNCHANGED <<tasks, progress_callback, workerVars, reqVars, batchVars>>

\* create_download_task: the insert and the release; the thread is created
\* and started after the block
StoreInsert(th) ==
    /\ lpc[th] = "insert"
    /\ BatchIdsLeft
    /\ \E url \in StoreUrls :
        LET task_id == uuid4 IN
        /\ tasks' = [t \in (DOMAIN tasks) \cup {task_id} |->
                        IF t = task_id THEN InitialRecord(url) ELSE tasks[t]]
        /\ last_call' = [op |-> "insert", task_id |-> task_id, ret |-> 0]
    /\ _tasks_lock' = None
    /\ lpc' = [lpc EXCEPT ![th] = "spawn"]
    /\ UNCHANGED <<progress_callback, workerVars, reqVars, batchVars, snapshot>>

\* create_download_task: thread.start() and the return of the id
StoreSpawn(th) ==
    /\ lpc[th] = "spawn"
    /\ lpc' = [lpc EXCEPT ![th] = "idle"]
    /\ UNCHANGED <<tasks, progress_callback, workerVars, reqVars, batchVars,
                   _tasks_lock, last_call, snapshot>>

\* the update calls another store operation inside its block: it asks for
\* the lock it holds
StoreUpdate_nested(th) ==
    /\ lpc[th] = "update"
    /\ _tasks_lock = None
    /\ \E task_id \in TaskIds, progress_data \in StorePayloads :
        /\ tasks' = _update_task_progress(task_id, progress_data)
        /\ last_call' = [op |-> "update", task_id |-> task_id, ret |-> 0]
    /\ _tasks_lock' = None
    /\ lpc' = [lpc EXCEPT ![th] = "idle"]
    /\ UNCHANGED <<progress_callback, workerVars, reqVars, batchVars, snapshot>>

\* _update_task_progress for any id and any payload, the release, the return
StoreUpdate(th) ==
    /\ lpc[th] = "update"
    /\ \E task_id \in TaskIds, progress_data \in StorePayloads :
        /\ tasks' = _update_task_progress(task_id, progress_data)
        /\ last_call' = [op |-> "update", task_id |-> task_id, ret |-> 0]
    /\ _tasks_lock' = None
    /\ lpc' = [lpc EXCEPT ![th] = "idle"]
    /\ UNCHANGED <<progress_callback, workerVars, reqVars, batchVars, snapshot>>

\* a worker enters the blocking engine call, downloader.download
StoreEngineCall(th) ==
    /\ lpc[th] = "idle"
    /\ lpc' = [lpc EXCEPT ![th] = "engine"]
    /\ UNCHANGED <<tasks, progress_callback, workerVars, reqVars, batchVars,
                   _tasks_lock, last_call, snapshot>>

\* the engine call returns
StoreEngineReturn(th) ==
    /\ lpc[th] = "engine"
    /\ lpc' = [lpc EXCEPT ![th] = "idle"]
    /\ UNCHANGED <<tasks, progress_callback, workerVars, reqVars, batchVars,
                   _tasks_lock, last_call, snapshot>>

\* the caller of get_task_status writes into the dict it was given
MutateSnapshot(th) ==
    /\ lpc[th] = "idle"
    /\ snapshot.task_id # None
    /\ SnapValue(snapshot, tasks) # DictUpdate(SnapValue(snapshot, tasks), CallerEdit)
    /\ IF snapshot.alias = None
       THEN /\ snapshot' = [snapshot EXCEPT !.val = DictUpdate(@, CallerEdit)]
            /\ UNCHANGED tasks
       ELSE /\ tasks' = [tasks EXCEPT ![snapshot.alias] = DictUpdate(@, CallerEdit)]
            /\ UNCHANGED snapshot
    /\ UNCHANGED <<progress_callback, workerVars, reqVars, batchVars,
                   _tasks_lock, lpc, last_call>>

StoreNext ==
    \/ \E th \in Threads : StoreEnter(th)
    \/ \E th \in Threads : StoreCount(th)
    \/ \E th \in Threads : StoreGet(th)
    \/ \E th \in Threads : StoreInsert(th)
    \/ \E th \in Threads : StoreSpawn(th)
    \/ \E th \in Threads : StoreUpdate(th)
    \/ \E th \in Threads : StoreEngineCall(th)
    \/ \E th \in Threads : StoreEngineReturn(th)
    \/ \E th \in Threads : MutateSnapshot(th)

StoreSpec == Init /\ [][StoreNext]_vars

\* a thread inside a block runs on to its end
StoreRelease(th) ==
    StoreCount(th) \/ StoreGet(th) \/ StoreInsert(th) \/ StoreUpdate(th)

StoreFairness == \A th \in Threads : WF_vars(StoreRelease(th))

\* the store operations without the callers' writes into returned dicts
LockNext ==
    \/ \E th \in Threads : StoreEnter(th)
    \/ \E th \in Threads : StoreCount(th)
    \/ \E th \in Threads : StoreGet(th)
    \/ \E th \in Threads : StoreInsert(th)
    \/ \E th \in Threads : StoreSpawn(th)
    \/ \E th \in Threads : StoreUpdate(th)
    \/ \E th \in Threads : StoreEngineCall(th)
    \/ \E th \in Threads : StoreEngineReturn(th)

LiveStoreSpec == Init /\ [][LockNext]_vars /\ StoreFairness

\* -------------------------------------------------- scheduling of workers
\* a started thread keeps running; the engine call returns or raises
WorkerFairness ==
    \A t \in TaskIds :
        /\ WF_vars(SetCallback(t))
        /\ WF_vars(DownloadBegin(t))
        /\ WF_vars(HookLoad(t))
        /\ WF_vars(HookCall(t))
        /\ SF_vars(DownloadReturn(t))
        /\ WF_vars(FinalUpdate(t))
        /\ WF_vars(ExceptUpdate(t))
        /\ WF_vars(ClearCallback(t))

LiveSpec == Init /\ [][SerialNext]_vars /\ WorkerFairness

\* ================================================================ claims
IsTerminal(t) == t \in DOMAIN tasks /\ tasks[t]["status"] \in TerminalStatuses
Failed(t)     == ~result[t].success

\* C1 (as claimed): once a record's status is completed or error, no later
\* step of any thread changes that status.
C1_TerminalExclusivity ==
    [][\A t \in DOMAIN tasks :
          tasks[t]["status"] \in TerminalStatuses
              => tasks'[t]["status"] = tasks[t]["status"]]_vars

\* C2 (as claimed): a task whose download() returned success has, once its
\* worker thread has ended, status completed and percent 100.
C2_SuccessEndsCompleted ==
    \A t \in TaskIds :
        (wpc[t] = "done" /\ result[t].success)
            => (tasks[t]["status"] = "completed" /\ tasks[t]["percent"] = 100)

\* C3 (as claimed): an event of the engine call running for task t changes
\* no record but t's.
C3_NoCrossTaskLeak ==
    [][\A t \in TaskIds :
          HookCall(t) => \A u \in DOMAIN tasks \ {t} : tasks'[u] = tasks[u]]_vars

\* C4: under fair scheduling of the worker, with an engine call that returns
\* or raises, the record of every task whose worker was started reaches a
\* terminal status.
C4_NoStuckTask ==
    \A t \in TaskIds : (wpc[t] = "start") ~> IsTerminal(t)

\* C4 witness: a worker that went through the fault handler has ended, its
\* record carrying the generic error.
C4_Witness ==
    \E t \in DOMAIN tasks :
        /\ wpc[t] = "done"
        /\ result[t] = NoResult
        /\ tasks[t]["status"] = "error"
        /\ tasks[t]["error"] = WorkerFault

\* C5 (as claimed): with requests served one at a time, right after a task
\* is admitted and inserted at most max_concurrent_downloads records are
\* queued, downloading or processing.
C5_AdmissionCeiling ==
    [][\A r \in Reqs :
          CreateTask(r) => get_active_downloads_count' <= max_concurrent_downloads]_vars

\* C6: with requests served one at a time and no record terminal, a
\* submission is admitted while fewer than the ceiling were created, and the
\* one made when exactly ceiling-many were created is answered 429 with the
\* store untouched and an active count equal to the ceiling (so no more than
\* ceiling-many tasks are downloading or processing).
C6_CeilingScenario ==
    [][\A r \in Reqs :
          (AdmissionCheck(r) /\ \A t \in DOMAIN tasks : ~IsTerminal(t))
              => /\ Cardinality(DOMAIN tasks) < max_concurrent_downloads
                     => (rpc'[r] = "admitted" /\ resp'[r] # 429)
                 /\ Cardinality(DOMAIN tasks) = max_concurrent_downloads
                     => /\ resp'[r] = 429
                        /\ rpc'[r] = "idle"
                        /\ tasks' = tasks
                        /\ wpc' = wpc
                        /\ get_active_downloads_count = max_concurrent_downloads
                        /\ Cardinality({t \in DOMAIN tasks :
                               tasks[t]["status"] \in {"downloading", "processing"}})
                             <= max_concurrent_downloads]_vars

\* C6 witness: a request was just rejected while ceiling-many tasks exist,
\* none of them terminal.
C6_Witness ==
    \E r \in Reqs :
        /\ resp[r] = 429
        /\ rpc[r] = "idle"
        /\ Cardinality(DOMAIN tasks) = max_concurrent_downloads
        /\ get_active_downloads_count = max_concurrent_downloads

\* C7: from the insertion on (so before the id is returned and ever after) a
\* status query for the id yields a non-empty record and the progress
\* endpoint does not answer 404.
C7_ImmediatePresence ==
    \A id \in returned \cup {rid[r] : r \in {q \in Reqs : rpc[q] = "created"}} :
        /\ get_task_status(id) # EmptyDict
        /\ get_download_progress(id) = 200

\* C7 witness: an id has been returned, its worker has long ended, and the
\* record is still found.
C7_Witness ==
    \E id \in returned : wpc[id] = "done" /\ get_download_progress(id) = 200

\* C8 (as claimed): when create_download_task returns an id, the record of
\* that id has status queued, however the new worker was scheduled.
C8_QueuedAtReturn ==
    [][\A r \in Reqs :
          CreateReturn(r) => get_task_status(rid[r])["status"] = "queued"]_vars

\* C8 (amended): when create_download_task returns an id, the record of that
\* id has status queued if the new worker has not yet bound its sink.
C8_QueuedAtReturnUnlessWorkerRan ==
    [][\A r \in Reqs :
          (CreateReturn(r) /\ wpc[rid[r]] = "start")
              => get_task_status(rid[r])["status"] = "queued"]_vars

\* C8 witness: an id has been returned while its worker has not run yet; the
\* record is queued.
C8_Witness ==
    \E id \in returned : wpc[id] = "start" /\ tasks[id]["status"] = "queued"

C10_IsolationUnderFault ==
    [][\A a \in TaskIds :
          (Failed(a) /\ (FinalUpdate(a) \/ ExceptUpdate(a) \/ ClearCallback(a)))
              => \A b \in DOMAIN tasks \ {a} :
                    /\ tasks'[b] = tasks[b]
                    /\ (wpc[b] = "engine" /\ progress_callback = b)
                           => progress_callback' = b]_vars

EngineFailed(t) == result[t].error \in {FfmpegMissing, EngineError}

\* C11 (as claimed): when download() reports a failure, the final update
\* writes status error with the engine's non-empty message and, the record
\* having been active, lowers the active count by one; and the record still
\* reads so when the worker has ended.
C11_EngineFailureRecorded ==
    [][\A t \in TaskIds :
          /\ (FinalUpdate(t) /\ EngineFailed(t))
                => /\ tasks'[t]["status"] = "error"
                   /\ tasks'[t]["error"] = result[t].error
                   /\ tasks'[t]["error"] # ""
                   /\ tasks[t]["status"] \in {"queued", "downloading", "processing"}
                          => get_active_downloads_count' = get_active_downloads_count - 1
          /\ (wpc'[t] = "done" /\ EngineFailed(t))
                => /\ tasks'[t]["status"] = "error"
                   /\ tasks'[t]["error"] = result[t].error]_vars

\* C12: every step that takes a record from queued, downloading or
\* processing to completed or error lowers the active count by exactly one,
\* and an admission check made while the count is below the ceiling admits.
C12_SlotRelease ==
    [][/\ \A t \in DOMAIN tasks :
            (/\ tasks[t]["status"] \in {"queued", "downloading", "processing"}
             /\ tasks'[t]["status"] \in {"completed", "error"})
                => get_active_downloads_count' = get_active_downloads_count - 1
       /\ \A r \in Reqs :
            (AdmissionCheck(r) /\ get_active_downloads_count < max_concurrent_downloads)
                => (rpc'[r] = "admitted" /\ resp'[r] # 429)]_vars

\* C12 witness: one request was answered 429, a task has since become
\* terminal, and another request has passed the check.
C12_Witness ==
    \E r, q \in Reqs :
        /\ resp[q] = 429
        /\ rpc[r] = "admitted"
        /\ \E t \in DOMAIN tasks : IsTerminal(t)
        /\ get_active_downloads_count < max_concurrent_downloads

\* C15: a request checked at or above the ceiling is answered 429 and
\* changes neither the store nor the set of workers; an admitted request
\* inserts exactly one record, starts exactly one worker (for that id) and is
\* answered 201 with that id.
C15_SubmissionOutcome ==
    [][\A r \in Reqs :
          /\ AdmissionCheck(r)
                => /\ tasks' = tasks /\ wpc' = wpc /\ returned' = returned
                   /\ IF get_active_downloads_count >= max_concurrent_downloads
                      THEN resp'[r] = 429 /\ rpc'[r] = "idle"
                      ELSE resp'[r] # 429 /\ rpc'[r] = "admitted"
          /\ CreateTask(r)
                => /\ DOMAIN tasks' = DOMAIN tasks \cup {rid'[r]}
                   /\ rid'[r] \notin DOMAIN tasks
                   /\ {t \in TaskIds : wpc'[t] # wpc[t]} = {rid'[r]}
                   /\ wpc[rid'[r]] = "none" /\ wpc'[rid'[r]] = "start"
          /\ CreateReturn(r)
                => /\ resp'[r] = 201
                   /\ returned' = returned \cup {rid[r]}
                   /\ tasks' = tasks /\ wpc' = wpc]_vars

\* C15 witness: one request has been answered 201 and another 429, with
\* exactly the one record of the admitted request in the store.
C15_Witness ==
    \E r, q \in Reqs :
        /\ resp[r] = 201
        /\ resp[q] = 429
        /\ Cardinality(DOMAIN tasks) = 1

\* C17: the progress route answers 404 exactly for the ids without a record:
\* never for a returned id, always (with an empty result) for an id no
\* create has produced.
C17_NotFoundIffAbsent ==
    \A id \in TaskIds :
        /\ (get_download_progress(id) = 404) <=> (id \notin DOMAIN tasks)
        /\ id \in returned => get_download_progress(id) = 200
        /\ wpc[id] = "none"
              => (get_download_progress(id) = 404 /\ get_task_status(id) = EmptyDict)

\* C17 witness: one id has been returned and is found with a terminal
\* record, another has never been created and is not found.
C17_Witness ==
    \E id, other \in TaskIds :
        /\ id \in returned
        /\ IsTerminal(id)
        /\ get_download_progress(id) = 200
        /\ wpc[other] = "none"
        /\ get_download_progress(other) = 404

StatusRank(s) ==
    CASE s = "queued"      -> 0
      [] s = "downloading" -> 1
      [] s = "processing"  -> 2
      [] s = "completed"   -> 3
      [] OTHER             -> 4

\* C18 (as claimed): a status only moves forward in the order queued <
\* downloading < processing < completed, or from a non-terminal status to
\* error.
C18_StatusMonotonic ==
    [][\A t \in DOMAIN tasks :
          tasks'[t]["status"] # tasks[t]["status"]
              => \/ /\ tasks'[t]["status"] = "error"
                    /\ tasks[t]["status"] \in {"queued", "downloading", "processing"}
                 \/ /\ tasks'[t]["status"] # "error"
                    /\ tasks[t]["status"] # "error"
                    /\ StatusRank(tasks'[t]["status"]) > StatusRank(tasks[t]["status"])]_vars

\* C19 (as claimed): every record's percent lies in [0, 100].
C19_PercentInRange ==
    \A t \in DOMAIN tasks : tasks[t]["percent"] >= 0 /\ tasks[t]["percent"] <= 100

\* C20: for a worker that overlaps no other worker, every hook event
\* reaches its own record: a downloading event with a positive total sets
\* status downloading and percent = downloaded / total * 100, a finished
\* event sets status processing, and the final update after a successful
\* return sets status completed and percent 100.
C20_ProgressScenario ==
    [][\A t \in TaskIds :
          /\ HookCall(t)
                => /\ hcb[t] = t
                   /\ \A d \in HookEvents :
                         tasks' = _update_task_progress(t, HookPayload(d))
                            => /\ (d.status = "downloading" /\ d.total_bytes > 0)
                                     => /\ tasks'[t]["status"] = "downloading"
                                        /\ tasks'[t]["percent"] * d.total_bytes
                                               = d.downloaded_bytes * 100
                               /\ d.status = "finished"
                                     => tasks'[t]["status"] = "processing"
          /\ (FinalUpdate(t) /\ result[t].success)
                => /\ tasks'[t]["status"] = "completed"
                   /\ tasks'[t]["percent"] = 100]_vars

\* C20 witness: a record shows downloading at 75 percent (150 of 200 bytes).
C20_Witness ==
    \E t \in DOMAIN tasks :
        /\ tasks[t]["status"] = "downloading"
        /\ tasks[t]["percent"] = 75
        /\ wpc[t] = "engine"

C21_UnknownTotalKeepsPercent ==
    [][\A t \in TaskIds : \A d \in HookEvents :
          (/\ HookCall(t)
           /\ hcb[t] \in DOMAIN tasks
           /\ d.status = "downloading" /\ d.total_bytes <= 0
           /\ tasks' = _update_task_progress(hcb[t], HookPayload(d)))
              => /\ tasks'[hcb[t]]["status"] = "downloading"
                 /\ tasks'[hcb[t]]["percent"] = tasks[hcb[t]]["percent"]]_vars

\* ---------------------------------------------------------------- C22
\* C22 (as claimed): a record has an error field only while its status is
\* error.
C22_ErrorFieldOnlyWithError ==
    \A t \in DOMAIN tasks :
        "error" \in DOMAIN tasks[t] => tasks[t]["status"] = "error"

\* ---------------------------------------------------------------- C23
\* C23: no step removes a record: the ids of the store only grow, and a
\* record that is there stays a record with status, url and percent.
C23_RecordsPersist ==
    [][/\ DOMAIN tasks \subseteq DOMAIN tasks'
       /\ \A t \in DOMAIN tasks :
             {"status", "url", "percent"} \subseteq DOMAIN tasks'[t]]_vars

\* C23 witness: two records are in the store, one of them terminal with its
\* worker ended, after one request was rejected and others were served.
C23_Witness ==
    /\ Cardinality(DOMAIN tasks) = 2
    /\ \E t \in DOMAIN tasks : wpc[t] = "done" /\ IsTerminal(t)
    /\ \E r \in Reqs : resp[r] = 429

\* ---------------------------------------------------------------- C25
\* C25 (as claimed): the step that ends a worker leaves the shared callback
\* detached, and once the worker of a task has ended no step changes the
\* record of that task.
C25_SinkDetachment ==
    [][\A t \in TaskIds :
          /\ (wpc[t] # "done" /\ wpc'[t] = "done") => progress_callback' = None
          /\ (wpc[t] = "done" /\ t \in DOMAIN tasks) => tasks'[t] = tasks[t]]_vars

\* ---------------------------------------------------------------- C26
\* C26: a worker in which an exception escaped the try block goes on to the
\* handler's update, which writes status error with the fixed message (not
\* the text of the exception), and from there to the finally clause, whose
\* step leaves the shared callback detached.
C26_WorkerFault ==
    [][\A t \in TaskIds :
          /\ wpc[t] = "except" => wpc'[t] \in {"except", "finally"}
          /\ (wpc[t] = "except" /\ wpc'[t] = "finally")
                => /\ tasks'[t]["status"] = "error"
                   /\ tasks'[t]["error"] = WorkerFault
                   /\ tasks'[t]["error"] # EngineError
          /\ wpc[t] = "finally" => wpc'[t] \in {"finally", "done"}
          /\ (wpc[t] = "finally" /\ wpc'[t] = "done") => progress_callback' = None]_vars

\* C26 witness: a worker has ended after a fault, its record reads error
\* with the fixed message and the shared callback is detached.
C26_Witness ==
    \E t \in DOMAIN tasks :
        /\ wpc[t] = "done"
        /\ result[t] = NoResult
        /\ tasks[t]["status"] = "error"
        /\ tasks[t]["error"] = WorkerFault
        /\ progress_callback = None

\* ---------------------------------------------------------------- C24
\* C24: no step changes the url of a record: not an update with a tick, a
\* finished event, a final status or the fault handler's payload, for
\* whichever id, and not an insert of another record.
C24_UrlImmutable ==
    [][\A t \in DOMAIN tasks :
          /\ t \in DOMAIN tasks'
          /\ tasks'[t]["url"] = tasks[t]["url"]
          /\ tasks'[t]["url"] \in StoreUrls]_vars

\* C24 witness: two records with different urls, one of them updated up to
\* completed, the update being the operation completed last.
C24_Witness ==
    /\ last_call.op = "update"
    /\ \E t, u \in DOMAIN tasks :
          /\ tasks[t]["url"] # tasks[u]["url"]
          /\ tasks[t]["status"] = "completed"
          /\ last_call.task_id = t

\* ---------------------------------------------------------------- C27
\* C27: at most one thread is inside a store operation, the lock is held
\* exactly while some thread is inside one and then by that thread, and a
\* thread that is in the engine call, is starting a worker or is outside the
\* store does not hold it.
C27_LockDiscipline ==
    /\ Cardinality({th \in Threads : lpc[th] \in StoreOps}) <= 1
    /\ \A th \in Threads : (lpc[th] \in StoreOps) <=> (_tasks_lock = th)
    /\ \A th \in Threads :
          lpc[th] \in {"engine", "spawn", "idle"} => _tasks_lock # th
    /\ (_tasks_lock = None) <=> (\A th \in Threads : lpc[th] \notin StoreOps)

\* C27 witness: one thread is inside an update while the other is in the
\* engine call.
C27_Witness ==
    \E th, other \in Threads :
        /\ lpc[th] = "update" /\ _tasks_lock = th
        /\ lpc[other] = "engine"
        /\ DOMAIN tasks # {}

\* ---------------------------------------------------------------- C28
\* C28: an update for an id without a record leaves the whole store as it
\* is, for every payload, and returns to its caller like any other update.
C28_UpdateAbsentIsNoOp ==
    [][/\ \A th \in Threads :
             (lpc[th] = "update" /\ lpc'[th] # "update")
                 => /\ lpc'[th] = "idle" /\ _tasks_lock' = None
                    /\ last_call'.op = "update"
                    /\ last_call'.task_id \notin DOMAIN tasks => tasks' = tasks
       /\ \A id \in TaskIds \ DOMAIN tasks : \A p \in ProgramPayloads :
             _update_task_progress(id, p) = tasks]_vars

\* C28 witness: the operation completed last is an update for an id that
\* has no record, while the store holds another record.
C28_Witness ==
    /\ last_call.op = "update"
    /\ last_call.task_id \notin DOMAIN tasks
    /\ DOMAIN tasks # {}
    /\ \A th \in Threads : lpc[th] = "idle"

\* ---------------------------------------------------------------- C29
\* C29: get_task_status leaves the store unchanged (also for an unknown id,
\* for which it returns the empty dict) and returns the contents of the
\* record as they are at that moment; what the caller then writes into the
\* returned dict does not reach the store, and no later store operation
\* changes what the caller holds.
C29_GetIsSnapshot ==
    [][/\ \A th \in Threads :
             (lpc[th] = "get" /\ lpc'[th] # "get")
                 => /\ tasks' = tasks
                    /\ SnapValue(snapshot', tasks') =
                          (IF snapshot'.task_id \in DOMAIN tasks
                           THEN tasks[snapshot'.task_id] ELSE EmptyDict)
       /\ (\E th \in Threads : MutateSnapshot(th)) => tasks' = tasks
       /\ (/\ \A th \in Threads : ~(lpc[th] = "get" /\ lpc'[th] # "get")
           /\ ~(\E th \in Threads : MutateSnapshot(th)))
             => SnapValue(snapshot', tasks') = SnapValue(snapshot, tasks)]_vars

\* C29 witness: the caller holds a dict taken when the record was queued
\* and has written into it, and the record has since been updated to
\* completed.
C29_Witness ==
    /\ snapshot.task_id \in DOMAIN tasks
    /\ DOMAIN snapshot.val = {"status", "url", "percent"}
    /\ snapshot.val["status"] = "seen"
    /\ snapshot.val["percent"] = 0
    /\ tasks[snapshot.task_id]["status"] = "completed"

WpcRank(p) ==
    CASE p = "none"    -> 0
      [] p = "start"   -> 1
      [] p = "call"    -> 2
      [] p = "engine"  -> 3
      [] p = "final"   -> 4
      [] p = "except"  -> 4
      [] p = "finally" -> 5
      [] OTHER         -> 6

\* C31: a worker only moves forward, so it calls download() once and is not
\* run again after its final update; a worker starts only in the step of a
\* request that inserts its record; and the workers that have called
\* download() are never more than the records.
C31_NoRetry ==
    [][/\ \A t \in TaskIds :
             wpc'[t] # wpc[t] => WpcRank(wpc'[t]) > WpcRank(wpc[t])
       /\ \A t \in TaskIds :
             (wpc[t] = "none" /\ wpc'[t] # "none")
                 => /\ wpc'[t] = "start"
                    /\ t \notin DOMAIN tasks /\ t \in DOMAIN tasks'
                    /\ \E r \in Reqs : rpc[r] = "admitted" /\ rpc'[r] = "created"
       /\ Cardinality({t \in TaskIds : WpcRank(wpc'[t]) >= 3})
             <= Cardinality(DOMAIN tasks')]_vars

\* C31 witness: the only task ended in error after a failed download, its
\* worker has ended, no request is in progress and no other task exists.
C31_Witness ==
    /\ DOMAIN tasks = {1}
    /\ wpc[1] = "done" /\ EngineFailed(1)
    /\ tasks[1]["status"] = "error"
    /\ wpc[2] = "none"
    /\ \A r \in Reqs : rpc[r] = "idle"

\* ---------------------------------------------------------------- C33
\* C33: the step that inserts a record does not look at the count again: a
\* request that passed its check inserts also when the count has reached
\* the ceiling in the meantime, and the count then goes one higher.
C33_CheckNotAtomic ==
    [][\A r \in Reqs :
          (rpc[r] = "admitted" /\ rpc'[r] # "admitted")
              => /\ rpc'[r] = "created"
                 /\ rid'[r] \in DOMAIN tasks' /\ rid'[r] \notin DOMAIN tasks
                 /\ get_active_downloads_count' = get_active_downloads_count + 1]_vars

\* C33 witness: both requests passed the check while the count was one
\* below the ceiling, both records are inserted and still queued, and the
\* count is one above the ceiling.
C33_Witness ==
    /\ \A r \in Reqs : rpc[r] = "created"
    /\ \A t \in DOMAIN tasks : tasks[t]["status"] = "queued" /\ wpc[t] = "start"
    /\ get_active_downloads_count = max_concurrent_downloads + 1

\* ---------------------------------------------------------------- C34
\* C34 (as claimed): a record whose worker has ended is completed or error,
\* so when every worker has ended the active count is 0.
C34_ExitedWorkerIsTerminal ==
    /\ \A t \in DOMAIN tasks : wpc[t] = "done" => IsTerminal(t)
    /\ (\A t \in DOMAIN tasks : wpc[t] = "done") => get_active_downloads_count = 0

\* ---------------------------------------------------------------- C35
\* C35 (as claimed): while the engine call of a task runs, the shared
\* callback is the lambda of that task.
C35_CallbackStaysBound ==
    \A t \in TaskIds : wpc[t] = "engine" => progress_callback = t

\* ---------------------------------------------------------------- C36
\* C36 (as claimed): what the hook loads for the call, after it tested the
\* shared callback as set, is a callback and not None.
C36_NoClearedCallbackInvoked ==
    \A t \in TaskIds : hpc[t] = "loaded" => hcb[t] # None

\* ---------------------------------------------------------------- C37
\* C37: a record with status completed has percent 100.
C37_CompletedIsFull ==
    \A t \in DOMAIN tasks :
        tasks[t]["status"] = "completed" => tasks[t]["percent"] = 100

\* C37 witness: a completed record that has first been at 150 percent or
\* in error, beside another task whose engine call is running.
C37_Witness ==
    \E t, u \in DOMAIN tasks :
        /\ tasks[t]["status"] = "completed" /\ tasks[t]["percent"] = 100
        /\ "error" \in DOMAIN tasks[t]
        /\ wpc[t] = "done"
        /\ wpc[u] = "engine"

\* ---------------------------------------------------------------- C32
\* C32 (as claimed): when the delivery of a progress event raises (the hook
\* calls a callback that is None), only the event is lost: the engine call
\* of that task goes on, with no result yet and the store as it was, so that
\* the final update follows the outcome of the transfer itself.
C32_DeliveryFailureIsSwallowed ==
    [][\A t \in TaskIds :
          (hpc[t] = "loaded" /\ hcb[t] = None /\ hpc'[t] = "idle")
              => /\ wpc'[t] = "engine"
                 /\ result'[t] = result[t]
                 /\ tasks' = tasks]_vars

====
